---- MODULE Spec2Model ----
(***************************************************************************)
(* Roster / attendance reconciliation service (src/view.py).               *)
(*                                                                         *)
(* FileUploadView.post ingests a roster sheet and an attendance sheet into *)
(* two tables; SearchView.get answers count / low_hours /                  *)
(* non_pl_low_hours / search queries over them.                            *)
(*                                                                         *)
(* Text is modelled by TLA+ strings, whose characters are read with        *)
(* SubSeq; a calendar date is the integer yyyymmdd, so that the order of   *)
(* dates is the order of integers; a time of day is a number of seconds.   *)
(* A table is the sequence of its rows in primary-key (creation) order.    *)
(***************************************************************************)
EXTENDS Integers, Sequences, FiniteSets, TLC

VARIABLES
    roster,       \* table Roster: rows [name, date, team, schedule]
    attendance,   \* table Attendance: rows [name, date, employee_id, ...]
    request,      \* the request being answered (files or query parameters)
    response,     \* the response of the handler to that request
    uploads       \* the file pairs of the upload requests served so far

vars == <<roster, attendance, request, response, uploads>>

(***************************************************************************)
(* Bounds of the model.                                                    *)
(***************************************************************************)
MaxUploads == 2
MaxSeedUploads == 2
MaxMonthUploads == 1

(***************************************************************************)
(* The statuses of the responses (rest_framework.status); a Response that   *)
(* names no status is HTTP_200_OK.                                          *)
(***************************************************************************)
HTTP_200_OK == 200
HTTP_201_CREATED == 201
HTTP_400_BAD_REQUEST == 400
HTTP_404_NOT_FOUND == 404
HTTP_500_INTERNAL_SERVER_ERROR == 500

(***************************************************************************)
(* Text.                                                                   *)
(***************************************************************************)
Lowers == "abcdefghijklmnopqrstuvwxyz"
Uppers == "ABCDEFGHIJKLMNOPQRSTUVWXYZ"
Digits == "0123456789"
\* characters in code-point order, as far as the model's texts use them
CodePoints == " -./" \o Digits \o "<>" \o Uppers \o Lowers

Char(s, i) == SubSeq(s, i, i)

Chars(s) == {Char(s, i) : i \in 1..Len(s)}

IndexIn(alphabet, c) ==
    IF \E i \in 1..Len(alphabet) : Char(alphabet, i) = c
    THEN CHOOSE i \in 1..Len(alphabet) : Char(alphabet, i) = c
    ELSE 0

\* f as a table of its values, each computed once
Tabulated(f) == f @@ <<>>

\* Op(v), with v computed once however often Op uses it
Bind(v, Op(_)) == CHOOSE r \in {Op(x) : x \in {v}} : TRUE

\* the tables of the characters: lower case, upper case, digit value, code order
LowerTable == Tabulated([c \in Chars(Uppers) |-> Char(Lowers, IndexIn(Uppers, c))])
UpperTable == Tabulated([c \in Chars(Lowers) |-> Char(Uppers, IndexIn(Lowers, c))])
DigitTable == Tabulated([c \in Chars(Digits) |-> IndexIn(Digits, c) - 1])
CodeTable == Tabulated([c \in Chars(CodePoints) |-> IndexIn(CodePoints, c)])

LowerChar(c) == IF c \in DOMAIN LowerTable THEN LowerTable[c] ELSE c

UpperChar(c) == IF c \in DOMAIN UpperTable THEN UpperTable[c] ELSE c

RECURSIVE StrLower(_)
StrLower(s) ==
    IF s = "" THEN ""
    ELSE LowerChar(Char(s, 1)) \o StrLower(SubSeq(s, 2, Len(s)))

RECURSIVE StrUpper(_)
StrUpper(s) ==
    IF s = "" THEN ""
    ELSE UpperChar(Char(s, 1)) \o StrUpper(SubSeq(s, 2, Len(s)))

RECURSIVE StrStrip(_)
StrStrip(s) ==
    IF s = "" THEN ""
    ELSE IF Char(s, 1) = " " THEN StrStrip(SubSeq(s, 2, Len(s)))
    ELSE IF Char(s, Len(s)) = " " THEN StrStrip(SubSeq(s, 1, Len(s) - 1))
    ELSE s

\* str.isdigit(): non-empty and every character a digit
IsDigitStr(s) ==
    /\ s # ""
    /\ \A i \in 1..Len(s) : Char(s, i) \in DOMAIN DigitTable

\* int(s) of a digit string
RECURSIVE StrToInt(_)
StrToInt(s) ==
    IF s = "" THEN 0
    ELSE 10 * StrToInt(SubSeq(s, 1, Len(s) - 1))
         + DigitTable[Char(s, Len(s))]

\* Python's order of str: by code point, a proper prefix first
RECURSIVE StrLess(_, _)
StrLess(a, b) ==
    IF b = "" THEN FALSE
    ELSE IF a = "" THEN TRUE
    ELSE IF Char(a, 1) = Char(b, 1)
         THEN StrLess(SubSeq(a, 2, Len(a)), SubSeq(b, 2, Len(b)))
    ELSE CodeTable[Char(a, 1)] < CodeTable[Char(b, 1)]

\* str.split(): the maximal runs of non-blank characters, in order
RECURSIVE SplitFrom(_, _, _)
SplitFrom(s, cur, acc) ==
    IF s = "" THEN (IF cur = "" THEN acc ELSE Append(acc, cur))
    ELSE IF Char(s, 1) = " "
         THEN SplitFrom(SubSeq(s, 2, Len(s)), "",
                        IF cur = "" THEN acc ELSE Append(acc, cur))
    ELSE SplitFrom(SubSeq(s, 2, Len(s)), cur \o Char(s, 1), acc)

Split(s) == SplitFrom(s, "", <<>>)

\* name__icontains=word
IContains(s, word) ==
    Bind(<<StrLower(s), StrLower(word)>>, LAMBDA l :
        \E i \in 1..(Len(l[1]) - Len(l[2]) + 1) :
            SubSeq(l[1], i, i + Len(l[2]) - 1) = l[2])

\* field__iexact=value
IExact(s, value) == StrLower(s) = StrLower(value)

\* the values of a sequence or of a dict
Range(f) == {f[x] : x \in DOMAIN f}

Max(a, b) == IF a >= b THEN a ELSE b

(***************************************************************************)
(* Calendar (datetime.date).                                               *)
(***************************************************************************)
MkDate(y, m, d) == y * 10000 + m * 100 + d
YearOf(date) == date \div 10000
MonthOf(date) == (date \div 100) % 100
DayOf(date) == date % 100

IsLeap(y) == (y % 4 = 0 /\ y % 100 # 0) \/ y % 400 = 0

DaysInMonth(y, m) ==
    IF m = 2 THEN (IF IsLeap(y) THEN 29 ELSE 28)
    ELSE IF m \in {4, 6, 9, 11} THEN 30
    ELSE 31

\* datetime.date(y, m, d) raises ValueError unless this holds
ValidYMD(y, m, d) ==
    /\ y >= 1
    /\ m \in 1..12
    /\ d >= 1
    /\ d <= DaysInMonth(y, m)

NextDay(date) ==
    LET y == YearOf(date)
        m == MonthOf(date)
        d == DayOf(date)
    IN  IF d < DaysInMonth(y, m) THEN MkDate(y, m, d + 1)
        ELSE IF m < 12 THEN MkDate(y, m + 1, 1)
        ELSE MkDate(y + 1, 1, 1)

PrevDay(date) ==
    LET y == YearOf(date)
        m == MonthOf(date)
        d == DayOf(date)
    IN  IF d > 1 THEN MkDate(y, m, d - 1)
        ELSE IF m > 1 THEN MkDate(y, m - 1, DaysInMonth(y, m - 1))
        ELSE MkDate(y - 1, 12, 31)

\* date + datetime.timedelta(days=n), n >= 0
RECURSIVE AddDays(_, _)
AddDays(date, n) == IF n = 0 THEN date ELSE AddDays(NextDay(date), n - 1)

\* date - datetime.timedelta(days=n), n >= 0
RECURSIVE SubDays(_, _)
SubDays(date, n) == IF n = 0 THEN date ELSE SubDays(PrevDay(date), n - 1)

\* date.replace(day=d)
ReplaceDay(date, d) == MkDate(YearOf(date), MonthOf(date), d)

\* date.isoformat(): yyyy-mm-dd
TwoDigits(n) == Char(Digits, (n \div 10) + 1) \o Char(Digits, (n % 10) + 1)

IsoFormat(date) ==
    LET y == YearOf(date)
    IN  TwoDigits(y \div 100) \o TwoDigits(y % 100) \o "-"
        \o TwoDigits(MonthOf(date)) \o "-" \o TwoDigits(DayOf(date))

(***************************************************************************)
(* Parsing of dates (pandas.to_datetime).                                  *)
(***************************************************************************)
\* what errors='coerce' yields for a value that is no date
NaT == 0

\* a cell or parameter "yyyy-mm-dd"
IsIsoText(s) ==
    /\ Len(s) = 10
    /\ Char(s, 5) = "-"
    /\ Char(s, 8) = "-"
    /\ IsDigitStr(SubSeq(s, 1, 4))
    /\ IsDigitStr(SubSeq(s, 6, 7))
    /\ IsDigitStr(SubSeq(s, 9, 10))

\* pd.to_datetime(text).date() of a query parameter
ParseIsoDate(s) ==
    MkDate(StrToInt(SubSeq(s, 1, 4)), StrToInt(SubSeq(s, 6, 7)),
           StrToInt(SubSeq(s, 9, 10)))

\* a cell "dd/mm/yyyy", read day first
IsDayFirstText(s) ==
    /\ Len(s) = 10
    /\ Char(s, 3) = "/"
    /\ Char(s, 6) = "/"
    /\ IsDigitStr(SubSeq(s, 1, 2))
    /\ IsDigitStr(SubSeq(s, 4, 5))
    /\ IsDigitStr(SubSeq(s, 7, 10))

\* pd.to_datetime(cell, dayfirst=True, errors='coerce') of one cell: the date,
\* or NaT for a blank cell and for text that is no date
ToDatetimeDayFirst(cell) ==
    IF IsDayFirstText(cell)
       /\ ValidYMD(StrToInt(SubSeq(cell, 7, 10)), StrToInt(SubSeq(cell, 4, 5)),
                   StrToInt(SubSeq(cell, 1, 2)))
    THEN MkDate(StrToInt(SubSeq(cell, 7, 10)), StrToInt(SubSeq(cell, 4, 5)),
                StrToInt(SubSeq(cell, 1, 2)))
    ELSE NaT

(***************************************************************************)
(* Times of day (to_safe_time).                                            *)
(***************************************************************************)
NoTime == 0 - 1

MkTime(h, m, s) == h * 3600 + m * 60 + s

\* cells of a time column: a blank cell, a time value, a fraction n/d of a day
BlankCell == [kind |-> "blank"]
TimeCell(h, m, s) == [kind |-> "time", h |-> h, m |-> m, s |-> s]
FractionCell(n, d) == [kind |-> "number", n |-> n, d |-> d]

to_safe_time(t) ==
    IF t.kind = "blank" THEN NoTime
    ELSE IF t.kind = "time" THEN MkTime(t.h, t.m, t.s)
    ELSE LET total_seconds == (t.n * 24 * 60 * 60) \div t.d
             clamped == IF total_seconds < 86399 THEN total_seconds ELSE 86399
             hours == clamped \div 3600
             remainder == clamped % 3600
             minutes == remainder \div 60
             seconds == remainder % 60
         IN  MkTime(hours, minutes, seconds)

(***************************************************************************)
(* Spreadsheets (pandas.read_excel).  A file holds the lines of its sheet, *)
(* each line the sequence of its cells; a blank text cell reads as NaN.    *)
(***************************************************************************)
NaN == "<NaN>"

NoFile == [present |-> FALSE, lines |-> <<>>]
SheetFile(lines) == [present |-> TRUE, lines |-> lines]

(***************************************************************************)
(* The sheets uploaded in the model.                                       *)
(***************************************************************************)
RosterHeader == << " Name", "Sr No", "1", "31", "Remarks" >>
RosterSubHeader == << NaN, NaN, "Fri", "Sun", NaN >>

RosterSheet(rows) == SheetFile(<<RosterHeader, RosterSubHeader>> \o rows)

RosterFiles ==
    { RosterSheet(<< <<"john doe", "T1", "WFO-M", "WO", NaN>>,
                     <<"christianna", "T2", "wfh-g", "PL", "late">> >>),
      RosterSheet(<< <<"john doe", "t2", "pl", "WFH-N", NaN>>,
                     <<"jon doe", "T1", "X", "wo", NaN>> >>),
      RosterSheet(<< <<"christianna", "T1", "WFO-G2", "WFO-S", NaN>>,
                     <<NaN, "T1", "WFO-M", "WFO-M", NaN>> >>) }

AttendanceHeader ==
    << "ADS ID", "Name", "User Type", "Designation", "Department", "Location",
       "First In", "Last Out", "Gross Time", "Out Of Office Time",
       "Out Of Office Count", "Net Office Time", "Attendance Date" >>

AttendanceLine(ads_id, name, department, net_office_time, attendance_date) ==
    << ads_id, name, "Employee", "Engineer", department, "Pune",
       TimeCell(9, 0, 0), FractionCell(3, 4), TimeCell(9, 0, 0), BlankCell,
       "2", net_office_time, attendance_date >>

AttendanceSheet(rows) == SheetFile(<<AttendanceHeader>> \o rows)

AttendanceFiles ==
    { AttendanceSheet(<<
          AttendanceLine("E1", "john doe", "IT", TimeCell(7, 59, 59), "01/12/2023"),
          AttendanceLine("E2", "christian", "HR", TimeCell(7, 30, 0), "31/12/2023"),
          AttendanceLine("E9", "jane roe", "HR", TimeCell(6, 0, 0), "01/12/2023") >>),
      AttendanceSheet(<<
          AttendanceLine("E3", "jon doe", "IT", FractionCell(1, 4), "01/04/2024"),
          AttendanceLine("e1", "doe john", "Ops", BlankCell, "01/04/2024") >>),
      AttendanceSheet(<<
          AttendanceLine("E2", "christian", "HR", TimeCell(7, 0, 0), "31/12/2023"),
          AttendanceLine("E1", "john doe", "IT", TimeCell(8, 0, 0), "01/12/2023"),
          AttendanceLine("E1", "john doe", "IT", TimeCell(7, 0, 0), NaN),
          AttendanceLine("E1", "doe john", "IT", TimeCell(7, 0, 0), "31/12/2023") >>),
      AttendanceSheet(<<
          AttendanceLine("E9", "jane roe", "HR", TimeCell(6, 0, 0), "n/a"),
          AttendanceLine("E1", "doe john", "IT", FractionCell(1, 4), "31/12/2023"),
          AttendanceLine("E1", NaN, "IT", TimeCell(6, 0, 0), "01/12/2023") >>),
      AttendanceSheet(<<
          AttendanceLine("E1", "john doe", "IT", TimeCell(7, 0, 0), NaN) >>) }

(***************************************************************************)
(* Name reconciliation (rapidfuzz.fuzz.token_set_ratio, process.extractOne).*)
(* A score is the fraction <<n, d>>, standing for n/d in 0..100.           *)
(***************************************************************************)
ScoreGE(a, b) == a[1] * b[2] >= b[1] * a[2]
ScoreGT(a, b) == a[1] * b[2] > b[1] * a[2]
ScoreMax(a, b) == IF ScoreGE(a, b) THEN a ELSE b

At0(seq, j) == IF j = 0 THEN 0 ELSE seq[j]

\* one row of the longest-common-subsequence table: row c of a against b
RECURSIVE LcsRow(_, _, _, _)
LcsRow(prev, c, b, row) ==
    LET j == Len(row) + 1
    IN  IF j > Len(b) THEN row
        ELSE LcsRow(prev, c, b,
                    Append(row, IF c = Char(b, j) THEN At0(prev, j - 1) + 1
                                ELSE Max(At0(prev, j), At0(row, j - 1))))

RECURSIVE LcsRows(_, _, _)
LcsRows(a, b, prev) ==
    IF a = "" THEN prev
    ELSE LcsRows(SubSeq(a, 2, Len(a)), b, LcsRow(prev, Char(a, 1), b, <<>>))

LcsLength(a, b) == At0(LcsRows(a, b, [j \in 1..Len(b) |-> 0]), Len(b))

\* insertions and deletions turning a into b
IndelDistance(a, b) == Len(a) + Len(b) - 2 * LcsLength(a, b)

\* 100 - 100 * dist / lensum
NormDistance(dist, lensum) ==
    IF lensum = 0 THEN <<100, 1>> ELSE <<100 * (lensum - dist), lensum>>

\* " ".join(sorted(tokens))
RECURSIVE SortedJoin(_)
SortedJoin(tokens) ==
    IF tokens = {} THEN ""
    ELSE LET first == CHOOSE t \in tokens : \A u \in tokens \ {t} : StrLess(t, u)
             rest == SortedJoin(tokens \ {first})
         IN  IF rest = "" THEN first ELSE first \o " " \o rest

token_set_ratio(s1, s2) ==
    LET tokens_a == Range(Split(s1))
        tokens_b == Range(Split(s2))
        intersect == tokens_a \cap tokens_b
        diff_ab == tokens_a \ tokens_b
        diff_ba == tokens_b \ tokens_a
        ab_len == Len(SortedJoin(diff_ab))
        ba_len == Len(SortedJoin(diff_ba))
        sect_len == Len(SortedJoin(intersect))
        sep == IF sect_len # 0 THEN 1 ELSE 0
        sect_ab_len == sect_len + sep + ab_len
        sect_ba_len == sect_len + sep + ba_len
        dist == IndelDistance(SortedJoin(diff_ab), SortedJoin(diff_ba))
        result == NormDistance(dist, sect_ab_len + sect_ba_len)
        sect_ab_ratio == NormDistance(sep + ab_len, sect_len + sect_ab_len)
        sect_ba_ratio == NormDistance(sep + ba_len, sect_len + sect_ba_len)
    IN  IF tokens_a = {} \/ tokens_b = {} THEN <<0, 1>>
        ELSE IF intersect # {} /\ (diff_ab = {} \/ diff_ba = {}) THEN <<100, 1>>
        ELSE IF sect_len = 0 THEN result
        ELSE ScoreMax(result, ScoreMax(sect_ab_ratio, sect_ba_ratio))

\* the names of the model's sheets, and their scores computed once
SheetNames ==
    UNION {{f.lines[i][1] : i \in 3..Len(f.lines)} : f \in RosterFiles}
    \cup UNION {{f.lines[i][2] : i \in 2..Len(f.lines)} : f \in AttendanceFiles}

ScoreMemo ==
    Tabulated([p \in SheetNames \X SheetNames |-> token_set_ratio(p[1], p[2])])

\* scorer=fuzz.token_set_ratio
Scorer(s1, s2) ==
    IF <<s1, s2>> \in DOMAIN ScoreMemo THEN ScoreMemo[<<s1, s2>>]
    ELSE token_set_ratio(s1, s2)

\* process.extractOne(query, choices, scorer=fuzz.token_set_ratio): the first
\* choice of the highest score, as [choice, score]; found is FALSE for no choices
RECURSIVE ExtractFrom(_, _, _)
ExtractFrom(query, choices, best) ==
    IF choices = <<>> THEN best
    ELSE Bind(Scorer(query, Head(choices)), LAMBDA score :
             IF ~best.found \/ ScoreGT(score, best.score)
             THEN ExtractFrom(query, Tail(choices),
                              [found |-> TRUE, choice |-> Head(choices), score |-> score])
             ELSE ExtractFrom(query, Tail(choices), best))

extractOne(query, choices) ==
    ExtractFrom(query, choices, [found |-> FALSE, choice |-> "", score |-> <<0, 1>>])

(***************************************************************************)
(* Frames (pandas.DataFrame).                                              *)
(***************************************************************************)
\* the frame of rows i.. of `lines` under `columns`
DataFrame(columns, lines, i) ==
    [columns |-> columns, rows |-> SubSeq(lines, i, Len(lines))]

HasColumn(df, col) == \E j \in 1..Len(df.columns) : df.columns[j] = col

\* row[col] of a row of df (the first column of that name)
Cell(df, row, col) ==
    row[CHOOSE j \in 1..Len(df.columns) :
            /\ df.columns[j] = col
            /\ \A k \in 1..(j - 1) : df.columns[k] # col]

\* row.get(col): NaN stands for the missing column as for the blank cell
RowGet(df, row, col) == IF HasColumn(df, col) THEN Cell(df, row, col) ELSE NaN

\* pd.read_excel(roster, header=0, skiprows=[1]) and the normalisation of the
\* column names: line 1 is the header, line 2 is skipped, the rest is data
ReadRoster(file) ==
    DataFrame([j \in 1..Len(file.lines[1]) |-> StrLower(StrStrip(file.lines[1][j]))],
              file.lines, 3)

attendance_columns ==
    << "ads_id", "name_in_attendance", "user_type", "designation", "department",
       "location", "first_in", "last_out", "gross_time", "out_of_office_time",
       "out_of_office_count", "net_office_time", "attendance_date" >>

\* pd.read_excel(attendance, header=None, skiprows=1): line 1 is skipped and
\* the columns are named by position
ReadAttendance(file) == DataFrame(attendance_columns, file.lines, 2)

\* series.dropna().unique().tolist(): the values that are not NaN, each once,
\* in the order of their first occurrence
RECURSIVE UniqueFrom(_, _, _, _)
UniqueFrom(df, col, i, acc) ==
    IF i > Len(df.rows) THEN acc
    ELSE Bind(Cell(df, df.rows[i], col), LAMBDA v :
             IF v = NaN \/ v \in Range(acc) THEN UniqueFrom(df, col, i + 1, acc)
             ELSE UniqueFrom(df, col, i + 1, Append(acc, v)))

DropnaUnique(df, col) == UniqueFrom(df, col, 1, <<>>)

(***************************************************************************)
(* Tables (Django's update_or_create on Roster and Attendance).            *)
(***************************************************************************)
\* update_or_create as a plain create: a row is added whether or not the key exists
AlwaysCreate(table, name, date, defaults) ==
    Append(table, [name |-> name, date |-> date] @@ defaults)

\* objects.update_or_create(name=name, date=date, defaults=defaults): the first
\* row of that name and date takes the defaults, or a new row is created
UpdateOrCreate(table, name, date, defaults) ==
    Bind(<<table, [name |-> name, date |-> date] @@ defaults>>, LAMBDA a :
        LET rows == a[1]
            new == a[2]
            hit(i) == rows[i].name = new.name /\ rows[i].date = new.date
        IN  IF \A i \in 1..Len(rows) : ~hit(i)
            THEN Append(rows, new)
            ELSE [rows EXCEPT ![CHOOSE i \in 1..Len(rows) :
                                    hit(i) /\ \A k \in 1..(i - 1) : ~hit(k)] = new])

(***************************************************************************)
(* FileUploadView.                                                         *)
(***************************************************************************)
MatchThreshold == <<90, 1>>

\* the threshold test with > in place of >=
IsMatchAbove(match) == match.found /\ ScoreGT(match.score, MatchThreshold)

\* if match and match[1] >= 90
IsMatch(match) == match.found /\ ScoreGE(match.score, MatchThreshold)

\* the name_map of post: each attendance name whose best roster name scores 90
\* or more, with that roster name
RECURSIVE BuildNameMap(_, _, _)
BuildNameMap(attendance_names, roster_names, name_map) ==
    IF attendance_names = <<>> THEN name_map
    ELSE Bind(extractOne(Head(attendance_names), roster_names), LAMBDA match :
             BuildNameMap(Tail(attendance_names), roster_names,
                          IF IsMatch(match)
                          THEN name_map @@ (Head(attendance_names) :> match.choice)
                          ELSE name_map))

\* the test of a day column without the check of the calendar
IsNumericColumn(col_name, year, month) == IsDigitStr(col_name)

\* a column of the roster sheet that is a day of the processing month: its name
\* is a number and date(year, month, int(col_name)) does not raise
IsRosterDay(col_name, year, month) ==
    IsDigitStr(col_name) /\ ValidYMD(year, month, StrToInt(col_name))

\* the cells of one roster row, column by column from column j
RECURSIVE ProcessRosterRow(_, _, _, _, _, _)
ProcessRosterRow(table, df, row, year, month, j) ==
    IF j > Len(df.columns) THEN table
    ELSE LET col_name == df.columns[j]
             schedule == row[j]
         IN  IF IsRosterDay(col_name, year, month)
             THEN ProcessRosterRow(
                      UpdateOrCreate(table, RowGet(df, row, "name"),
                                     MkDate(year, month, StrToInt(col_name)),
                                     [team |-> RowGet(df, row, "sr no"),
                                      schedule |-> schedule]),
                      df, row, year, month, j + 1)
             ELSE ProcessRosterRow(table, df, row, year, month, j + 1)

RECURSIVE ProcessRosterFrom(_, _, _, _, _)
ProcessRosterFrom(table, df, year, month, i) ==
    IF i > Len(df.rows) THEN table
    ELSE ProcessRosterFrom(ProcessRosterRow(table, df, df.rows[i], year, month, 1),
                           df, year, month, i + 1)

_process_roster_data(table, df, year, month) ==
    ProcessRosterFrom(table, df, year, month, 1)

AttendanceDefaults(df, row) ==
    [employee_id |-> Cell(df, row, "ads_id"),
     user_type |-> Cell(df, row, "user_type"),
     designation |-> Cell(df, row, "designation"),
     department |-> Cell(df, row, "department"),
     location |-> Cell(df, row, "location"),
     first_in |-> to_safe_time(Cell(df, row, "first_in")),
     last_out |-> to_safe_time(Cell(df, row, "last_out")),
     gross_time |-> to_safe_time(Cell(df, row, "gross_time")),
     out_of_office_time |-> to_safe_time(Cell(df, row, "out_of_office_time")),
     out_of_office_count |-> Cell(df, row, "out_of_office_count"),
     net_office_time |-> to_safe_time(Cell(df, row, "net_office_time"))]

\* The rows of the attendance frame from row i on.  A date cell that is no date
\* does not take the `continue` of the loop: a blank cell is None by then,
\* to_datetime(None) is None and None.date() raises; text that is no date is
\* NaT, NaT.date() is NaT, NaT is true, and the row goes on to update_or_create,
\* which raises on a date lookup that is no date.  Either way the exception
\* leaves the loop with the rows before it saved.
RECURSIVE ProcessAttendanceFrom(_, _, _, _)
ProcessAttendanceFrom(table, df, name_map, i) ==
    IF i > Len(df.rows) THEN [table |-> table, raised |-> FALSE]
    ELSE Bind(ToDatetimeDayFirst(Cell(df, df.rows[i], "attendance_date")),
              LAMBDA attendance_date :
             IF attendance_date = NaT THEN [table |-> table, raised |-> TRUE]
             ELSE ProcessAttendanceFrom(
                      UpdateOrCreate(table,
                                     name_map[Cell(df, df.rows[i], "name_in_attendance")],
                                     attendance_date, AttendanceDefaults(df, df.rows[i])),
                      df, name_map, i + 1))

_process_attendance_data(table, df, name_map) ==
    ProcessAttendanceFrom(table, df, name_map, 1)

\* dates.dropna(): the dates of the attendance column that are dates, in order
ValidDates(df) ==
    LET keep(row) == ToDatetimeDayFirst(Cell(df, row, "attendance_date")) # NaT
    IN  Bind(SelectSeq(df.rows, keep), LAMBDA rows :
            [i \in 1..Len(rows) |->
                 ToDatetimeDayFirst(Cell(df, rows[i], "attendance_date"))])

NameMapOf(roster_df, attendance_df) ==
    BuildNameMap(DropnaUnique(attendance_df, "name_in_attendance"),
                 DropnaUnique(roster_df, "name"), <<>>)

\* the roster frame without the filter on the matched names
UnfilteredRoster(roster_df, matched_names) == roster_df

\* roster_df[roster_df['name'].isin(matched_names)]
MatchedRoster(roster_df, matched_names) ==
    LET isMatched(row) == Cell(roster_df, row, "name") \in matched_names
    IN  [roster_df EXCEPT !.rows = SelectSeq(roster_df.rows, isMatched)]

\* attendance_df.dropna(subset=['name']) after name_in_attendance.map(name_map)
MappedAttendance(attendance_df, name_map) ==
    LET isMapped(row) == Cell(attendance_df, row, "name_in_attendance")
                             \in DOMAIN name_map
    IN  [attendance_df EXCEPT !.rows = SelectSeq(attendance_df.rows, isMapped)]

UploadReply(ros, att, status, month) ==
    [roster |-> ros, attendance |-> att, status |-> status, month |-> month]

\* the body of post once both frames are read and a first valid date is found
SaveMatched(ros, att, roster_df, attendance_df, first_valid_date) ==
    Bind(NameMapOf(roster_df, attendance_df), LAMBDA name_map :
    Bind(<<MatchedRoster(roster_df, Range(name_map)),
           MappedAttendance(attendance_df, name_map)>>, LAMBDA kept :
    Bind(_process_attendance_data(att, kept[2], name_map), LAMBDA done :
        UploadReply(_process_roster_data(ros, kept[1], YearOf(first_valid_date),
                                        MonthOf(first_valid_date)),
                    done.table,
                    IF done.raised THEN HTTP_500_INTERNAL_SERVER_ERROR
                    ELSE HTTP_201_CREATED,
                    ReplaceDay(first_valid_date, 1)))))

\* FileUploadView.post: the tables and the response it leaves
UploadResult(ros, att, roster_file, attendance_file) ==
    IF ~roster_file.present \/ ~attendance_file.present
    THEN UploadReply(ros, att, HTTP_400_BAD_REQUEST, NaT)
    ELSE Bind(<<ReadRoster(roster_file), ReadAttendance(attendance_file)>>, LAMBDA df :
         Bind(ValidDates(df[2]) \o <<>>, LAMBDA dates :
             IF dates = <<>> \/ ~HasColumn(df[1], "name")
             THEN UploadReply(ros, att, HTTP_500_INTERNAL_SERVER_ERROR, NaT)
             ELSE SaveMatched(ros, att, df[1], df[2], dates[1])))

(***************************************************************************)
(* SearchView.                                                             *)
(***************************************************************************)
\* _get_date_range returns (None, None) as <<NoDate, NoDate>>
NoDate == NaT

\* request.query_params.get(key); a parameter that is absent and one that is
\* empty are both false to every test the view makes
ParamGet(params, key) == IF key \in DOMAIN params THEN params[key] ELSE ""

InRange(row, start_date, end_date) ==
    row.date >= start_date /\ row.date <= end_date

\* the order by name, then date
RowBeforeByName(a, b) ==
    \/ StrLess(a.name, b.name)
    \/ a.name = b.name /\ a.date < b.date

\* order_by('date', 'name')
RowBefore(a, b) ==
    \/ a.date < b.date
    \/ a.date = b.date /\ StrLess(a.name, b.name)

RECURSIVE OrderByDateName(_)
OrderByDateName(unordered) ==
    Bind(unordered, LAMBDA rows :
        IF rows = <<>> THEN <<>>
        ELSE Bind(CHOOSE i \in 1..Len(rows) :
                      \A k \in 1..Len(rows) :
                          \/ k = i
                          \/ RowBefore(rows[i], rows[k])
                          \/ (~RowBefore(rows[k], rows[i]) /\ i < k),
                  LAMBDA i :
                      <<rows[i]>> \o OrderByDateName(SubSeq(rows, 1, i - 1)
                                                     \o SubSeq(rows, i + 1, Len(rows)))))

\* Attendance.objects.order_by('-date').first().date
LatestAttendanceDate(att) ==
    CHOOSE d \in {att[i].date : i \in 1..Len(att)} :
        \A i \in 1..Len(att) : att[i].date <= d

\* the end of the month with three days added to the 28th in the place of four
MonthEndThreeDays(start_date) ==
    Bind(AddDays(ReplaceDay(start_date, 28), 3), LAMBDA next_month :
        SubDays(next_month, DayOf(next_month)))

\* the last day of the month that start_date is the first day of:
\* next_month = start_date.replace(day=28) + timedelta(days=4);
\* end_date = next_month - timedelta(days=next_month.day)
MonthEnd(start_date) ==
    Bind(AddDays(ReplaceDay(start_date, 28), 4), LAMBDA next_month :
        SubDays(next_month, DayOf(next_month)))

_get_date_range(att, params) ==
    LET start_date_str == ParamGet(params, "start_date")
        end_date_str == ParamGet(params, "end_date")
    IN  IF start_date_str # ""
        THEN LET start_date == ParseIsoDate(start_date_str)
             IN  <<start_date,
                   IF end_date_str # "" THEN ParseIsoDate(end_date_str) ELSE start_date>>
        ELSE IF att = <<>> THEN <<NoDate, NoDate>>
        ELSE Bind(LatestAttendanceDate(att), LAMBDA target_date :
                 <<ReplaceDay(target_date, 1), MonthEnd(ReplaceDay(target_date, 1))>>)

\* every word of q is in the name, whatever the case
RECURSIVE MatchesWords(_, _)
MatchesWords(name, query_words) ==
    IF query_words = <<>> THEN TRUE
    ELSE IContains(name, Head(query_words)) /\ MatchesWords(name, Tail(query_words))

Names(rows) == {rows[i].name : i \in 1..Len(rows)}

WFO_SCHEDULES == {"WFO-M", "WFO-G", "WFO-G2", "WFO-S", "WFO-N"}
WFH_SCHEDULES == {"WFH-M", "WFH-G", "WFH-G2", "WFH-S", "WFH-N"}

\* the counter of a schedule compared as it is written
ScheduleCounterAsWritten(entry_schedule) ==
    IF entry_schedule \in WFO_SCHEDULES THEN "Total WFO"
    ELSE IF entry_schedule \in WFH_SCHEDULES THEN "Total WFH"
    ELSE IF entry_schedule = "WO" THEN "Total WO"
    ELSE IF entry_schedule = "PL" THEN "Total PL"
    ELSE ""

\* the counter an entry's schedule adds to, "" for none
ScheduleCounter(entry_schedule) ==
    LET schedule == IF entry_schedule # "" /\ entry_schedule # NaN
                    THEN StrUpper(entry_schedule) ELSE ""
    IN  IF schedule \in WFO_SCHEDULES THEN "Total WFO"
        ELSE IF schedule \in WFH_SCHEDULES THEN "Total WFH"
        ELSE IF schedule = "WO" THEN "Total WO"
        ELSE IF schedule = "PL" THEN "Total PL"
        ELSE ""

\* the counts of _perform_count over the roster entries of one employee
RECURSIVE CountEntries(_, _)
CountEntries(employee_rosters, counts) ==
    IF employee_rosters = <<>> THEN counts
    ELSE Bind(ScheduleCounter(Head(employee_rosters).schedule), LAMBDA counter :
             CountEntries(Tail(employee_rosters),
                          IF counter = "" THEN counts
                          ELSE [counts EXCEPT ![counter] = @ + 1]))

CountsOf(employee_rosters) ==
    Bind(CountEntries(employee_rosters,
                      [c \in {"Total WFO", "Total WFH", "Total WO", "Total PL"} |-> 0]),
         LAMBDA counts :
             counts @@ ("Total working days" :> counts["Total WFO"] + counts["Total WFH"])
                    @@ ("Total Leaves" :> counts["Total WO"] + counts["Total PL"]))

\* Attendance.objects.filter(name=name).values_list('employee_id').first()
FirstEmployeeId(att, name) ==
    LET hasName(row) == row.name = name
    IN  Bind(SelectSeq(att, hasName), LAMBDA rows :
            IF rows = <<>> THEN NaN ELSE rows[1].employee_id)

Reply(status, error, range, body) ==
    [status |-> status, error |-> error, period |-> NoDate, range |-> range,
     body |-> body]

\* the employees of a count with the two filters taken in the other order
CountNamesByQueryFirst(ros, att, query, employee_id, start_date, end_date) ==
    IF query # ""
    THEN LET matches(row) == /\ InRange(row, start_date, end_date)
                             /\ MatchesWords(row.name, Split(query))
         IN  Names(SelectSeq(ros, matches))
    ELSE LET hasId(row) == /\ row.employee_id # NaN
                           /\ IExact(row.employee_id, employee_id)
                           /\ InRange(row, start_date, end_date)
         IN  Names(SelectSeq(att, hasId))

\* the employees of a count: by id when id is given, else by the words of q
CountNames(ros, att, query, employee_id, start_date, end_date) ==
    IF employee_id # ""
    THEN LET hasId(row) == /\ row.employee_id # NaN
                           /\ IExact(row.employee_id, employee_id)
                           /\ InRange(row, start_date, end_date)
         IN  Names(SelectSeq(att, hasId))
    ELSE Bind(Split(query), LAMBDA query_words :
             LET matches(row) == /\ InRange(row, start_date, end_date)
                                 /\ MatchesWords(row.name, query_words)
             IN  Names(SelectSeq(ros, matches)))

\* one result of a count: the counts of the roster entries of one employee
CountResult(ros, att, name, start_date, end_date) ==
    LET ofName(row) == InRange(row, start_date, end_date) /\ row.name = name
    IN  [employee |-> name,
         employee_id |-> FirstEmployeeId(att, name),
         period_start |-> IsoFormat(start_date),
         period_end |-> IsoFormat(end_date),
         counts |-> CountsOf(SelectSeq(ros, ofName))]

_perform_count(ros, att, params) ==
    LET query == ParamGet(params, "q")
        employee_id == ParamGet(params, "id")
    IN  IF query = "" /\ employee_id = ""
        THEN Reply(HTTP_400_BAD_REQUEST, "A name query (q=...) or an ID query (id=...) is required.",
                   <<NoDate, NoDate>>, {})
        ELSE Bind(_get_date_range(att, params), LAMBDA range :
            IF range[1] = NoDate
            THEN Reply(HTTP_404_NOT_FOUND, "No data found for the requested period.", range, {})
            ELSE Bind(CountNames(ros, att, query, employee_id, range[1], range[2]),
                      LAMBDA employee_names :
                IF employee_names = {}
                THEN Reply(HTTP_404_NOT_FOUND, IF employee_id # "" THEN "No employee found with ID"
                                ELSE "No employee found matching", range, {})
                ELSE Reply(HTTP_200_OK, "", range,
                           {CountResult(ros, att, name, range[1], range[2]) :
                                name \in employee_names})))

eight_hours == MkTime(8, 0, 0)

\* net_office_time__lt=eight_hours within the range, ordered by date and name
LowHourAttendances(att, start_date, end_date) ==
    LET low(row) == /\ InRange(row, start_date, end_date)
                    /\ row.net_office_time # NoTime
                    /\ row.net_office_time < eight_hours
    IN  OrderByDateName(SelectSeq(att, low))

\* the exclusion of _find_non_pl_low_hours in the place of that of _find_low_hours
OnlyPlExcluded(schedule) == IExact(schedule, "PL")

\* the schedules _find_low_hours excludes from its roster_map
LowHoursExcluded(schedule) == IExact(schedule, "PL") \/ IExact(schedule, "WO")

\* the schedules _find_non_pl_low_hours excludes from its roster_map
NonPlExcluded(schedule) == IExact(schedule, "PL")

\* attendances joined to the roster rows of roster_map, in order
RECURSIVE JoinLowHours(_, _, _)
JoinLowHours(low_hour_attendances, roster_rows, results) ==
    IF low_hour_attendances = <<>> THEN results
    ELSE LET a == Head(low_hour_attendances)
             sameKey(row) == row.name = a.name /\ row.date = a.date
         IN  Bind(SelectSeq(roster_rows, sameKey), LAMBDA found :
                 JoinLowHours(Tail(low_hour_attendances), roster_rows,
                     IF found = <<>> THEN results
                     ELSE Append(results,
                                 [name |-> a.name, employee_id |-> a.employee_id,
                                  team |-> found[Len(found)].team, date |-> a.date,
                                  shift |-> found[Len(found)].schedule,
                                  net_office_time |-> a.net_office_time])))

\* the roster rows of the roster_map of _find_low_hours: in the range, of a name
\* among names, of a schedule that is neither PL nor WO
LowHoursRosterMap(ros, names, range) ==
    LET inMap(row) == /\ InRange(row, range[1], range[2])
                      /\ row.name \in names
                      /\ ~LowHoursExcluded(row.schedule)
    IN  SelectSeq(ros, inMap)

\* the roster rows of the roster_map of _find_non_pl_low_hours
NonPlRosterMap(ros, names, range) ==
    LET inMap(row) == /\ InRange(row, range[1], range[2])
                      /\ row.name \in names
                      /\ ~NonPlExcluded(row.schedule)
    IN  SelectSeq(ros, inMap)

_find_low_hours(ros, att, params) ==
    Bind(_get_date_range(att, params), LAMBDA range :
        IF range[1] = NoDate THEN Reply(HTTP_404_NOT_FOUND, "No data found.", range, <<>>)
        ELSE Bind(LowHourAttendances(att, range[1], range[2]),
                  LAMBDA low_hour_attendances :
            Bind(LowHoursRosterMap(ros, Names(low_hour_attendances), range),
                 LAMBDA roster_rows :
                Reply(HTTP_200_OK, "", range,
                      JoinLowHours(low_hour_attendances, roster_rows, <<>>)))))

_find_non_pl_low_hours(ros, att, params) ==
    Bind(_get_date_range(att, params), LAMBDA range :
        IF range[1] = NoDate THEN Reply(HTTP_404_NOT_FOUND, "No data found.", range, <<>>)
        ELSE Bind(LowHourAttendances(att, range[1], range[2]),
                  LAMBDA low_hour_attendances :
            Bind(NonPlRosterMap(ros, Names(low_hour_attendances), range),
                 LAMBDA roster_rows :
                Reply(HTTP_200_OK, "", range,
                      JoinLowHours(low_hour_attendances, roster_rows, <<>>)))))

NoAttendance ==
    [employee_id |-> NaN, department |-> NaN, first_in |-> NoTime,
     last_out |-> NoTime, gross_time |-> NoTime, out_of_office_time |-> NoTime,
     out_of_office_count |-> NaN, net_office_time |-> NoTime]

\* one entry of a search: the roster row with its attendance record, if any
SearchEntry(r, attendance_data) ==
    LET sameKey(row) == row.name = r.name /\ row.date = r.date
        last(found) == IF found = <<>> THEN NoAttendance ELSE found[Len(found)]
    IN  Bind(last(SelectSeq(attendance_data, sameKey)), LAMBDA a :
            [name |-> r.name, employee_id |-> a.employee_id, team |-> r.team,
             date |-> r.date, schedule |-> r.schedule,
             attendance |-> [department |-> a.department, first_in |-> a.first_in,
                             last_out |-> a.last_out, gross_time |-> a.gross_time,
                             out_of_office_time |-> a.out_of_office_time,
                             out_of_office_count |-> a.out_of_office_count,
                             net_office_time |-> a.net_office_time]])

\* the filters of _perform_search on one roster row
SearchFilter(row, teamname, query_words, shift) ==
    /\ teamname # "" => (row.team # NaN /\ IExact(row.team, teamname))
    /\ MatchesWords(row.name, query_words)
    /\ shift # "" => (row.schedule # NaN /\ IExact(row.schedule, shift))

\* the names of the attendance records of that id within the range
NamesWithId(att, employee_id, range) ==
    LET hasId(row) == /\ row.employee_id # NaN
                      /\ IExact(row.employee_id, employee_id)
                      /\ InRange(row, range[1], range[2])
    IN  Names(SelectSeq(att, hasId))

\* the roster queryset of a search, ordered by date and name
SearchRosters(ros, params, names_with_id, range) ==
    Bind(Split(ParamGet(params, "q")), LAMBDA query_words :
        LET keep(row) ==
                /\ InRange(row, range[1], range[2])
                /\ ParamGet(params, "id") # "" => row.name \in names_with_id
                /\ SearchFilter(row, ParamGet(params, "teamname"), query_words,
                                ParamGet(params, "shift"))
        IN  OrderByDateName(SelectSeq(ros, keep)))

\* the attendance records fetched for the names of the page, within the range
AttendanceData(att, names, range) ==
    LET fetched(row) == row.name \in names /\ InRange(row, range[1], range[2])
    IN  SelectSeq(att, fetched)

_perform_search(ros, att, params) ==
    Bind(_get_date_range(att, params), LAMBDA range :
        IF range[1] = NoDate
        THEN Reply(HTTP_404_NOT_FOUND, "No data found for the requested period.", range, <<>>)
        ELSE Bind(NamesWithId(att, ParamGet(params, "id"), range), LAMBDA names_with_id :
            IF ParamGet(params, "id") # "" /\ names_with_id = {}
            THEN Reply(HTTP_200_OK, "", range, <<>>)
            ELSE Bind(SearchRosters(ros, params, names_with_id, range), LAMBDA rosters :
                Bind(AttendanceData(att, Names(rosters), range), LAMBDA attendance_data :
                    Reply(HTTP_200_OK, "", range,
                          [i \in 1..Len(rosters) |->
                               SearchEntry(rosters[i], attendance_data)] \o <<>>)))))

\* SearchView.get: the handler the action parameter selects
get(ros, att, params) ==
    LET action == ParamGet(params, "action")
    IN  IF action = "count" THEN _perform_count(ros, att, params)
        ELSE IF action = "low_hours" THEN _find_low_hours(ros, att, params)
        ELSE IF action = "non_pl_low_hours" THEN _find_non_pl_low_hours(ros, att, params)
        ELSE _perform_search(ros, att, params)

(***************************************************************************)
(* Requests.                                                               *)
(***************************************************************************)
NoParams == [p \in {} |-> ""]

\* the parameter sets of the model's queries: each key absent or one of values
Choice(key, values) == {NoParams} \cup {key :> v : v \in values}

RangeParams ==
    { NoParams,
      "start_date" :> "2023-12-01",
      "start_date" :> "2023-12-01" @@ "end_date" :> "2023-12-31",
      "end_date" :> "2023-12-31" }

CountParams ==
    { ("action" :> "count") @@ q @@ id @@ range :
          q \in Choice("q", {"DO jo", "zzz"}),
          id \in Choice("id", {"e1", "E7"}),
          range \in RangeParams }

LowHoursParams ==
    { ("action" :> "low_hours") @@ range :
          range \in RangeParams \cup {"start_date" :> "2024-04-01"} }

NonPlLowHoursParams ==
    { ("action" :> "non_pl_low_hours") @@ range :
          range \in RangeParams \cup {"start_date" :> "2024-04-01"} }

SearchParams ==
    { teamname @@ q @@ shift @@ id @@ range :
          teamname \in Choice("teamname", {"t1"}),
          q \in Choice("q", {"DO jo"}),
          shift \in Choice("shift", {"wo"}),
          id \in Choice("id", {"e1", "E7"}),
          range \in {NoParams, "start_date" :> "2023-12-01" @@ "end_date" :> "2023-12-31"} }

\* one sheet for each length of month: the months of 2024, a leap year, with
\* February 2023 and December 2023
MonthDates ==
    { "15/01/2024", "29/02/2024", "10/03/2024", "30/04/2024", "01/05/2024",
      "15/06/2024", "31/07/2024", "15/08/2024", "01/09/2024", "15/10/2024",
      "30/11/2024", "31/12/2024", "28/02/2023", "01/12/2023" }

MonthFiles ==
    { AttendanceSheet(<<
          AttendanceLine("E1", "john doe", "IT", TimeCell(7, 0, 0), d),
          AttendanceLine("E1", "doe john", "IT", TimeCell(7, 0, 0), "01/01/2023") >>) :
      d \in MonthDates }

MonthRosterFiles ==
    { RosterSheet(<< <<"john doe", "T1", "WFO-M", "WO", NaN>> >>) }

Init ==
    /\ roster = <<>>
    /\ attendance = <<>>
    /\ request = [op |-> "none", roster |-> NoFile, attendance |-> NoFile,
                  params |-> NoParams]
    /\ response = Reply(0, "", <<NoDate, NoDate>>, <<>>)
    /\ uploads = <<>>

\* POST with the files roster_file and attendance_file
UploadFiles(roster_file, attendance_file) ==
    \E r \in {UploadResult(roster, attendance, roster_file, attendance_file)} :
        /\ roster' = r.roster
        /\ attendance' = r.attendance
        /\ request' = [op |-> "upload", roster |-> roster_file,
                       attendance |-> attendance_file, params |-> NoParams]
        /\ response' = [Reply(r.status, "", <<NoDate, NoDate>>, <<>>)
                            EXCEPT !.period = r.month]
        /\ uploads' = Append(uploads, [roster |-> roster_file,
                                        attendance |-> attendance_file])

\* GET with the query parameters params
Query(params) ==
    /\ request' = [op |-> "query", roster |-> NoFile, attendance |-> NoFile,
                   params |-> params]
    /\ response' = get(roster, attendance, params)

Upload ==
    /\ Len(uploads) < MaxUploads
    /\ \E roster_file \in RosterFiles \cup {NoFile},
          attendance_file \in AttendanceFiles :
           UploadFiles(roster_file, attendance_file)

\* the uploads that fill the tables the queries are put to
SeedUpload ==
    /\ Len(uploads) < MaxSeedUploads
    /\ \E roster_file \in RosterFiles, attendance_file \in AttendanceFiles :
           UploadFiles(roster_file, attendance_file)

MonthUpload ==
    /\ Len(uploads) < MaxMonthUploads
    /\ \E roster_file \in MonthRosterFiles, attendance_file \in MonthFiles :
           UploadFiles(roster_file, attendance_file)

Count ==
    /\ \E params \in CountParams : Query(params)
    /\ UNCHANGED <<roster, attendance, uploads>>

LowHours ==
    /\ \E params \in LowHoursParams : Query(params)
    /\ UNCHANGED <<roster, attendance, uploads>>

NonPlLowHours ==
    /\ \E params \in NonPlLowHoursParams : Query(params)
    /\ UNCHANGED <<roster, attendance, uploads>>

Search ==
    /\ \E params \in SearchParams : Query(params)
    /\ UNCHANGED <<roster, attendance, uploads>>

Next == Upload \/ Count \/ LowHours \/ NonPlLowHours \/ Search

Spec == Init /\ [][Next]_vars

\* the uploads alone
NextUpload == Upload

SpecUpload == Init /\ [][NextUpload]_vars

(***************************************************************************)
(* Properties of the uploads.                                              *)
(***************************************************************************)
\* the names of the roster sheet, in sheet order, and the rows of both sheets
SheetRosterNames(file) == DropnaUnique(ReadRoster(file), "name")

RawName(row) == row[2]

DateCell(row) == ToDatetimeDayFirst(row[13])

AttendanceRows(file) == ReadAttendance(file).rows

\* the highest score of raw against the names, as a number of hundredths
Hundredths(score) == (100 * score[1]) \div score[2]

BestScore(raw, names) ==
    CHOOSE best \in {Scorer(raw, names[i]) : i \in 1..Len(names)} :
        \A i \in 1..Len(names) : ScoreGE(best, Scorer(raw, names[i]))

\* raw has a roster name scoring 90 or more
Confident(raw, names) ==
    raw # NaN /\ names # <<>> /\ Hundredths(BestScore(raw, names)) >= 9000

\* the first roster name of the highest score
Canonical(raw, names) ==
    names[CHOOSE i \in 1..Len(names) :
              /\ \A k \in 1..Len(names) :
                     ScoreGE(Scorer(raw, names[i]), Scorer(raw, names[k]))
              /\ \A k \in 1..(i - 1) :
                     ~ScoreGE(Scorer(raw, names[k]), Scorer(raw, names[i]))]

\* the roster names that some name of the attendance sheet is matched to
MatchedPersons(roster_file, attendance_file) ==
    LET names == SheetRosterNames(roster_file)
        rows == AttendanceRows(attendance_file)
    IN  {Canonical(RawName(rows[k]), names) :
             k \in {k \in 1..Len(rows) : Confident(RawName(rows[k]), names)}}

\* the day numbers heading the columns of the roster sheet
DayNumbers(roster_file) ==
    LET columns == ReadRoster(roster_file).columns
    IN  {StrToInt(columns[j]) : j \in {j \in 1..Len(columns) : IsDigitStr(columns[j])}}

HasKey(table, name, date) ==
    \E i \in 1..Len(table) : table[i].name = name /\ table[i].date = date

RowsOf(table, name) == {table[i] : i \in {i \in 1..Len(table) : table[i].name = name}}

Saved == request.op = "upload" /\ response.status = HTTP_201_CREATED

\* every day of the processing month among the day columns has a row of name
PersistedFor(table, name, roster_file, month) ==
    \A d \in DayNumbers(roster_file) :
        ValidYMD(YearOf(month), MonthOf(month), d)
            => HasKey(table, name, MkDate(YearOf(month), MonthOf(month), d))

\* C1 as stated: after a successful upload every person named in the roster
\* sheet has roster records for the valid days of the processing month, a person
\* matched by no attendance name included.
C1_EveryRosterPersonPersisted ==
    Saved => \A name \in Range(SheetRosterNames(request.roster)) :
                 PersistedFor(roster, name, request.roster, response.period)

\* C1 amended: after a successful upload every roster person that some
\* attendance name of the upload is matched to has roster records for the valid
\* days of the processing month, and the upload leaves the roster records of every
\* other person of the sheet as they were.
C1_MatchedRosterPersonsPersisted ==
    [][(request'.op = "upload" /\ response'.status = HTTP_201_CREATED) =>
          \A name \in Range(SheetRosterNames(request'.roster)) :
              IF name \in MatchedPersons(request'.roster, request'.attendance)
              THEN PersistedFor(roster', name, request'.roster, response'.period)
              ELSE RowsOf(roster', name) = RowsOf(roster, name)]_vars

\* a successful upload whose roster sheet names a matched person, who is
\* persisted, and a person no attendance name is matched to, who is not
C1_UnmatchedPersonLeftOut ==
    /\ Saved
    /\ \E name \in MatchedPersons(request.roster, request.attendance) :
           RowsOf(roster, name) # {}
    /\ \E name \in Range(SheetRosterNames(request.roster)) :
           /\ name \notin MatchedPersons(request.roster, request.attendance)
           /\ RowsOf(roster, name) = {}

\* the rows of the attendance sheet that name a person: the name cell is not
\* blank and some roster name of the upload scores 90 or more against it
ConfidentRows(roster_file, attendance_file) ==
    LET rows == AttendanceRows(attendance_file)
    IN  {k \in 1..Len(rows) :
             Confident(RawName(rows[k]), SheetRosterNames(roster_file))}

\* the rows an upload wrote: created, or changed in place
Written(before, after) ==
    {i \in 1..Len(after) : i > Len(before) \/ after[i] # before[i]}

\* C2: every attendance record an upload writes bears a name of the roster sheet
\* of that upload, the first roster name of the highest score against the raw
\* name of a sheet row of that date whose best score is 90 or more, and never a
\* blank name; a row whose best score is below 90 writes no record; after a
\* successful upload every row of best score 90 or more is stored under that
\* roster name.
C2_CanonicalAttendanceNames ==
    [][(request'.op = "upload" /\ response'.status # HTTP_400_BAD_REQUEST) =>
          LET names == SheetRosterNames(request'.roster)
              rows == AttendanceRows(request'.attendance)
              confident == ConfidentRows(request'.roster, request'.attendance)
          IN  /\ \A i \in Written(attendance, attendance') :
                     /\ attendance'[i].name # NaN
                     /\ attendance'[i].name \in Range(names)
                     /\ \E k \in confident :
                            /\ attendance'[i].name = Canonical(RawName(rows[k]), names)
                            /\ attendance'[i].date = DateCell(rows[k])
                            /\ attendance'[i].employee_id = rows[k][1]
              /\ response'.status = HTTP_201_CREATED =>
                     \A k \in confident :
                         HasKey(attendance', Canonical(RawName(rows[k]), names),
                                DateCell(rows[k]))]_vars

\* a successful upload that stored a row under a roster name that is not the
\* raw spelling of the row, its score being exactly 90, and stored nothing for
\* a row of a lower score
C2_ThresholdRowStored ==
    /\ Saved
    /\ LET names == SheetRosterNames(request.roster)
           rows == AttendanceRows(request.attendance)
       IN  /\ \E k \in ConfidentRows(request.roster, request.attendance) :
                  /\ Hundredths(BestScore(RawName(rows[k]), names)) = 9000
                  /\ Canonical(RawName(rows[k]), names) # RawName(rows[k])
                  /\ HasKey(attendance, Canonical(RawName(rows[k]), names),
                            DateCell(rows[k]))
                  /\ ~HasKey(attendance, RawName(rows[k]), DateCell(rows[k]))
           /\ \E k \in 1..Len(rows) :
                  /\ RawName(rows[k]) # NaN
                  /\ ~Confident(RawName(rows[k]), names)
                  /\ Hundredths(BestScore(RawName(rows[k]), names)) > 0
                  /\ RowsOf(attendance, RawName(rows[k])) = {}

NoDuplicateKeys(table) ==
    \A i, k \in 1..Len(table) :
        (table[i].name = table[k].name /\ table[i].date = table[k].date) => i = k

\* C3: no table ever holds two rows of the same name and date, and an upload of
\* the file pair of the upload just before it leaves both tables as that upload
\* left them.
C3_UpsertIdempotent ==
    [][request'.op = "upload" =>
          /\ NoDuplicateKeys(roster')
          /\ NoDuplicateKeys(attendance')
          /\ (/\ request.op = "upload"
              /\ request'.roster = request.roster
              /\ request'.attendance = request.attendance)
                 => (roster' = roster /\ attendance' = attendance)]_vars

\* the same file pair uploaded twice in a row, with success, over tables that
\* hold rows of both kinds
C3_SamePairTwice ==
    /\ Saved
    /\ Len(uploads) >= 2
    /\ uploads[Len(uploads)] = uploads[Len(uploads) - 1]
    /\ roster # <<>>
    /\ attendance # <<>>

\* C4: once an upload has read its sheets, for every row of the roster sheet
\* whose name is matched and every column headed by a day number d, the roster
\* table holds the row (name, date of d in the processing month, team of the
\* row, cell of the column) when d is a day of that month, and no row for d
\* when it is not; a day that is no day of the month fails no request: an
\* upload fails only on an attendance row of a matched name whose date is no
\* date.
C4_RosterReshape ==
    (request.op = "upload" /\ response.period # NaT) =>
        LET df == ReadRoster(request.roster)
            year == YearOf(response.period)
            month == MonthOf(response.period)
            matched == MatchedPersons(request.roster, request.attendance)
            rows == AttendanceRows(request.attendance)
            last(r) == \A r2 \in (r + 1)..Len(df.rows) :
                           Cell(df, df.rows[r2], "name") # Cell(df, df.rows[r], "name")
        IN  /\ \A r \in 1..Len(df.rows) : \A j \in 1..Len(df.columns) :
                   (/\ Cell(df, df.rows[r], "name") \in matched
                    /\ last(r)
                    /\ IsDigitStr(df.columns[j]))
                   => IF StrToInt(df.columns[j]) \in 1..DaysInMonth(year, month)
                      THEN \E i \in 1..Len(roster) :
                               roster[i] =
                                   [name |-> Cell(df, df.rows[r], "name"),
                                    date |-> MkDate(year, month, StrToInt(df.columns[j])),
                                    team |-> Cell(df, df.rows[r], "sr no"),
                                    schedule |-> df.rows[r][j]]
                      ELSE ~HasKey(roster, Cell(df, df.rows[r], "name"),
                                   MkDate(year, month, StrToInt(df.columns[j])))
            /\ response.status = HTTP_201_CREATED
                   \/ \E k \in ConfidentRows(request.roster, request.attendance) :
                          DateCell(rows[k]) = NaT

\* a successful upload whose roster sheet has a column for a day the processing
\* month does not have, and rows of a matched name stored for its other days
C4_InvalidDaySkipped ==
    /\ Saved
    /\ \E d \in DayNumbers(request.roster) :
           d > DaysInMonth(YearOf(response.period), MonthOf(response.period))
    /\ \E name \in MatchedPersons(request.roster, request.attendance) :
           /\ RowsOf(roster, name) # {}
           /\ PersistedFor(roster, name, request.roster, response.period)

\* C5 as stated: when a row of the attendance sheet has a date that is no date
\* and another row has a date and a matched name, the upload succeeds and stores
\* every row that has a date and a matched name.
C5_BadDateRowSkipped ==
    (/\ request.op = "upload"
     /\ request.roster.present
     /\ request.attendance.present) =>
        LET names == SheetRosterNames(request.roster)
            rows == AttendanceRows(request.attendance)
            confident == ConfidentRows(request.roster, request.attendance)
        IN  (/\ \E k \in 1..Len(rows) : DateCell(rows[k]) = NaT
             /\ \E k \in confident : DateCell(rows[k]) # NaT)
            => /\ response.status = HTTP_201_CREATED
               /\ \A k \in confident :
                      DateCell(rows[k]) # NaT
                          => HasKey(attendance, Canonical(RawName(rows[k]), names),
                                    DateCell(rows[k]))

\* the queries, each over the tables a few uploads leave
NextCount == SeedUpload \/ Count

SpecCount == Init /\ [][NextCount]_vars

NextLowHours == SeedUpload \/ LowHours \/ NonPlLowHours

SpecLowHours == Init /\ [][NextLowHours]_vars

NextSearch == SeedUpload \/ Search

SpecSearch == Init /\ [][NextSearch]_vars

\* the queries over tables whose latest attendance date runs over the months
RangeQueryParams ==
    {params \in CountParams \cup LowHoursParams \cup NonPlLowHoursParams
                 \cup SearchParams :
         /\ ParamGet(params, "id") = ""
         /\ ParamGet(params, "teamname") = ""
         /\ ParamGet(params, "shift") = ""
         /\ ParamGet(params, "q") # "zzz"}

RangeQuery ==
    /\ \E params \in RangeQueryParams : Query(params)
    /\ UNCHANGED <<roster, attendance, uploads>>

NextRange == MonthUpload \/ RangeQuery

SpecRange == Init /\ [][NextRange]_vars

(***************************************************************************)
(* Properties of the queries.  response.range is the range the handler      *)
(* resolved; the tables of a state are those the query was put to.          *)
(***************************************************************************)
Param(key) == ParamGet(request.params, key)

IsQuery(action) == request.op = "query" /\ Param("action") = action

Within(row, range) == range[1] <= row.date /\ row.date <= range[2]

\* the attendance records of that id, and the roster records whose name has
\* every word of q, within the range
IdMatches(att, id, range) ==
    {i \in 1..Len(att) : /\ att[i].employee_id # NaN
                         /\ StrLower(att[i].employee_id) = StrLower(id)
                         /\ Within(att[i], range)}

WordMatches(ros, q, range) ==
    {i \in 1..Len(ros) : /\ Within(ros[i], range)
                         /\ \A word \in Range(Split(q)) : IContains(ros[i].name, word)}

\* C6 as stated: a count query with neither q nor id is a bad request; one
\* whose id matches no attendance record in the range, or whose q matches no
\* roster name in the range, is not found.
C6_CountOutcomes ==
    IsQuery("count") =>
        /\ (Param("q") = "" /\ Param("id") = "") => response.status = HTTP_400_BAD_REQUEST
        /\ (Param("id") # "" /\ IdMatches(attendance, Param("id"), response.range) = {})
               => response.status = HTTP_404_NOT_FOUND
        /\ (Param("q") # "" /\ WordMatches(roster, Param("q"), response.range) = {})
               => response.status = HTTP_404_NOT_FOUND

\* C6 amended: a count query leaves both tables unchanged; with neither q nor
\* id it is a bad request; with an id it is not found exactly when the id
\* matches no attendance record in the range, whatever q is; with a q and no id
\* it is not found exactly when q matches no roster name in the range; and the
\* two statuses differ.
C6_CountOutcomesIdFirst ==
    [][(request'.op = "query" /\ ParamGet(request'.params, "action") = "count") =>
          LET q == ParamGet(request'.params, "q")
              id == ParamGet(request'.params, "id")
          IN  /\ roster' = roster
              /\ attendance' = attendance
              /\ HTTP_400_BAD_REQUEST # HTTP_404_NOT_FOUND
              /\ response'.status \in {HTTP_400_BAD_REQUEST, HTTP_404_NOT_FOUND, HTTP_200_OK}
              /\ (q = "" /\ id = "") <=> response'.status = HTTP_400_BAD_REQUEST
              /\ id # "" =>
                     (response'.status = HTTP_404_NOT_FOUND
                          <=> IdMatches(attendance', id, response'.range) = {})
              /\ (id = "" /\ q # "") =>
                     (response'.status = HTTP_404_NOT_FOUND
                          <=> WordMatches(roster', q, response'.range) = {})]_vars

\* a count query that is answered, its id matching an attendance record in the
\* range while its q matches no roster name
C6_IdBeforeQuery ==
    /\ IsQuery("count")
    /\ response.status = HTTP_200_OK
    /\ Param("id") # ""
    /\ Param("q") # ""
    /\ IdMatches(attendance, Param("id"), response.range) # {}
    /\ WordMatches(roster, Param("q"), response.range) = {}
    /\ roster # <<>>

\* the category of a shift code after upper-casing
Category(schedule) ==
    LET code == IF schedule = NaN THEN "" ELSE StrUpper(schedule)
    IN  IF code \in {"WFO-M", "WFO-G", "WFO-G2", "WFO-S", "WFO-N"} THEN "WFO"
        ELSE IF code \in {"WFH-M", "WFH-G", "WFH-G2", "WFH-S", "WFH-N"} THEN "WFH"
        ELSE IF code = "WO" THEN "WO"
        ELSE IF code = "PL" THEN "PL"
        ELSE "uncategorized"

EntriesOf(name, range) ==
    {i \in 1..Len(roster) : roster[i].name = name /\ Within(roster[i], range)}

InCategory(entries, category) ==
    Cardinality({i \in entries : Category(roster[i].schedule) = category})

\* C7: for each employee a count reports, each of the four totals is the number
\* of the roster entries of that name in the range whose upper-cased shift code
\* is of that category, the four totals and the number of entries of any other
\* code add up to the number of the entries, working days are WFO + WFH and
\* leaves are WO + PL.
C7_ClassificationPartition ==
    (IsQuery("count") /\ response.status = HTTP_200_OK) =>
        \A result \in response.body :
            LET entries == EntriesOf(result.employee, response.range)
                counts == result.counts
            IN  /\ counts["Total WFO"] = InCategory(entries, "WFO")
                /\ counts["Total WFH"] = InCategory(entries, "WFH")
                /\ counts["Total WO"] = InCategory(entries, "WO")
                /\ counts["Total PL"] = InCategory(entries, "PL")
                /\ counts["Total WFO"] + counts["Total WFH"] + counts["Total WO"]
                       + counts["Total PL"] + InCategory(entries, "uncategorized")
                   = Cardinality(entries)
                /\ counts["Total working days"]
                       = counts["Total WFO"] + counts["Total WFH"]
                /\ counts["Total Leaves"] = counts["Total WO"] + counts["Total PL"]

\* a count that reports an employee with an entry of a lower-case code that is
\* counted and an employee with an entry of no category
C7_MixedCodesCounted ==
    /\ IsQuery("count")
    /\ response.status = HTTP_200_OK
    /\ \E result \in response.body :
           \E i \in EntriesOf(result.employee, response.range) :
               /\ Category(roster[i].schedule) # "uncategorized"
               /\ StrUpper(roster[i].schedule) # roster[i].schedule
    /\ \E result \in response.body :
           InCategory(EntriesOf(result.employee, response.range), "uncategorized") > 0

\* an attendance record in the range whose net office time is below 8:00:00
IsLowHour(a, range) ==
    /\ Within(a, range)
    /\ a.net_office_time # NoTime
    /\ a.net_office_time < 8 * 3600

IsCode(schedule, code) == schedule # NaN /\ StrLower(schedule) = StrLower(code)

\* the attendance records of low hours with their roster entry of the same name
\* and date, as pairs of positions, the entries of the codes in `excluded` left out
LowHourPairs(range, excluded) ==
    {p \in (1..Len(attendance)) \X (1..Len(roster)) :
         /\ IsLowHour(attendance[p[1]], range)
         /\ roster[p[2]].name = attendance[p[1]].name
         /\ roster[p[2]].date = attendance[p[1]].date
         /\ \A code \in excluded : ~IsCode(roster[p[2]].schedule, code)}

LowHourEntry(p) ==
    [name |-> attendance[p[1]].name, employee_id |-> attendance[p[1]].employee_id,
     team |-> roster[p[2]].team, date |-> attendance[p[1]].date,
     shift |-> roster[p[2]].schedule,
     net_office_time |-> attendance[p[1]].net_office_time]

\* the entries are in the order of date, then name
Ordered(entries) ==
    \A i, k \in 1..Len(entries) :
        i < k => \/ entries[i].date < entries[k].date
                 \/ /\ entries[i].date = entries[k].date
                    /\ ~StrLess(entries[k].name, entries[i].name)

LatestMonth(att) ==
    LET latest == CHOOSE d \in {att[i].date : i \in 1..Len(att)} :
                      \A i \in 1..Len(att) : att[i].date <= d
    IN  <<MkDate(YearOf(latest), MonthOf(latest), 1),
          MkDate(YearOf(latest), MonthOf(latest),
                 DaysInMonth(YearOf(latest), MonthOf(latest)))>>

\* the range of a query that gives start_date
GivenRange ==
    <<ParseIsoDate(Param("start_date")),
      IF Param("end_date") # "" THEN ParseIsoDate(Param("end_date"))
      ELSE ParseIsoDate(Param("start_date"))>>

NoData ==
    /\ response.status = HTTP_404_NOT_FOUND
    /\ response.error \in {"No data found.", "No data found for the requested period."}

\* the count that gives neither q nor id
IsUnfilteredCount == IsQuery("count") /\ Param("q") = "" /\ Param("id") = ""

\* C9 as stated: for every query action, the range is [start_date, end_date or
\* start_date] when start_date is given, else the month of the latest attendance
\* date when the attendance table has rows, and else the action answers no data.
C9_DateRange ==
    request.op = "query" =>
        IF Param("start_date") # ""
        THEN response.status # HTTP_400_BAD_REQUEST => response.range = GivenRange
        ELSE IF attendance # <<>>
        THEN response.status # HTTP_400_BAD_REQUEST => response.range = LatestMonth(attendance)
        ELSE NoData

\* C9 amended: the same of every query but the count that gives neither q nor id,
\* which is a bad request before any range is resolved; and a count that is
\* answered reports the range as its period.
C9_DateRangeOfValidQueries ==
    (request.op = "query" /\ ~IsUnfilteredCount) =>
        /\ IF Param("start_date") # ""
           THEN response.range = GivenRange
           ELSE IF attendance # <<>>
           THEN response.range = LatestMonth(attendance)
           ELSE NoData
        /\ (IsQuery("count") /\ response.status = HTTP_200_OK) =>
               \A result \in response.body :
                   /\ result.period_start = IsoFormat(response.range[1])
                   /\ result.period_end = IsoFormat(response.range[2])

\* a count without start_date answered over the February of a leap year
C9_LeapFebruary ==
    /\ IsQuery("count")
    /\ Param("start_date") = ""
    /\ response.status = HTTP_200_OK
    /\ response.range = <<20240201, 20240229>>
    /\ \E result \in response.body :
           result.period_start = "2024-02-01" /\ result.period_end = "2024-02-29"

\* the roster records a search keeps: in the range and passing every filter given
SearchKept ==
    {i \in 1..Len(roster) :
         /\ Within(roster[i], response.range)
         /\ Param("teamname") # "" => IsCode(roster[i].team, Param("teamname"))
         /\ \A word \in Range(Split(Param("q"))) : IContains(roster[i].name, word)
         /\ Param("shift") # "" => IsCode(roster[i].schedule, Param("shift"))
         /\ Param("id") # "" =>
                \E k \in IdMatches(attendance, Param("id"), response.range) :
                    attendance[k].name = roster[i].name}

AttendanceFields ==
    {"department", "first_in", "last_out", "gross_time", "out_of_office_time",
     "out_of_office_count", "net_office_time"}

\* the null of a field: NaN for a text, NoTime for a time
NullOf(field) ==
    IF field \in {"department", "out_of_office_count"} THEN NaN ELSE NoTime

\* entry e is the roster record i with the attendance record of its name and
\* date, or with nulls when there is none
JoinsRoster(e, i) ==
    /\ e.name = roster[i].name
    /\ e.date = roster[i].date
    /\ e.team = roster[i].team
    /\ e.schedule = roster[i].schedule
    /\ IF HasKey(attendance, e.name, e.date)
       THEN \E k \in 1..Len(attendance) :
                /\ attendance[k].name = e.name
                /\ attendance[k].date = e.date
                /\ e.employee_id = attendance[k].employee_id
                /\ \A f \in AttendanceFields : e.attendance[f] = attendance[k][f]
       ELSE /\ e.employee_id = NaN
            /\ \A f \in AttendanceFields : e.attendance[f] = NullOf(f)

\* C10: a search returns one entry for each roster record in the range that
\* passes every filter given and no other entry, each with the attendance fields
\* of the attendance record of the same name and date or with nulls when there
\* is none, in the order of date, then name.
C10_SearchLeftJoin ==
    (request.op = "query" /\ Param("action") = "" /\ response.status = HTTP_200_OK) =>
        /\ Len(response.body) = Cardinality(SearchKept)
        /\ \A i \in SearchKept :
               \E n \in 1..Len(response.body) : JoinsRoster(response.body[n], i)
        /\ \A n \in 1..Len(response.body) :
               \E i \in SearchKept : JoinsRoster(response.body[n], i)
        /\ Ordered(response.body)

\* a filtered search that leaves out a roster record of the range and returns
\* an entry with its attendance record and, after it, an entry of nulls
C10_JoinedAndNullEntries ==
    /\ request.op = "query"
    /\ Param("action") = ""
    /\ response.status = HTTP_200_OK
    /\ Param("teamname") # ""
    /\ \E i \in 1..Len(roster) : Within(roster[i], response.range) /\ i \notin SearchKept
    /\ \E n, m \in 1..Len(response.body) :
           /\ n < m
           /\ response.body[n].date < response.body[m].date
           /\ response.body[n].attendance["net_office_time"] # NoTime
           /\ response.body[m].employee_id = NaN

====
